---------------------------- MODULE Spec2Model ----------------------------
(***************************************************************************)
(* Model of ProjectExcelTo3D: src/main.py drives src/data_processor.py.    *)
(*                                                                         *)
(* A pandas DataFrame is a sequence of columns, each a record              *)
(*   [name, dtype, cells]; a cell is a tagged scalar [t, n, d, s]:         *)
(*   t = "na"    a missing value (NaN / NaT / None)                        *)
(*   t = "int"   the integer n            t = "bool"  n = 1 (True) or 0    *)
(*   t = "float" the rational n / d       t = "str"   the string s         *)
(*   t = "dt"    a datetime64[ns], n nanoseconds after the epoch           *)
(*   t = "td"    a timedelta64[ns] of n nanoseconds                        *)
(* The dtypes are those open_file_to_df can deliver (read_csv, read_excel):*)
(*   int64, float64, bool, datetime64, timedelta64, object (text and NaN). *)
(*                                                                         *)
(* The library calls are modelled by what pandas 1.x / 2.x and numpy do    *)
(* (the code uses Series.view, which pandas 3 no longer has):              *)
(*   - Series.astype(str) turns a missing value into the text "nan";       *)
(*   - pd.Categorical sorts its categories;                                *)
(*   - np.column_stack casts its columns to one common dtype, and raises   *)
(*     for int64 with datetime64, which have none;                         *)
(*   - go.Scatter3d / go.Figure record the arguments they are given;       *)
(*   - a Dash callback that raises leaves its Output as it was.            *)
(*                                                                         *)
(* Two specifications share the definitions:                               *)
(*   Spec    the program main(): load, the classifier pass, the column     *)
(*           choice, build_dash_app, then selector-change callbacks;       *)
(*   SpecFn  change_data_types_to_numeric and build_3d_figure applied as   *)
(*           functions to every bounded DataFrame and argument tuple.      *)
(***************************************************************************)
EXTENDS Integers, Sequences, FiniteSets, TLC

VARIABLES
    df,             \* the DataFrame (main.py: df)
    df_classified,  \* history: df as returned by change_ordinal_cols_by_terminal
    pc,             \* position of main(), or of the function harness
    col_i,          \* change_ordinal_cols_by_terminal: index of `for col in columns`
    sel,            \* the four dropdown values [x, y, z, color]
    figure,         \* the Graph's figure property (or the figure returned, in SpecFn)
    series          \* SpecFn: what change_data_types_to_numeric returned

vars == <<df, df_classified, pc, col_i, sel, figure, series>>

----------------------------------------------------------------------------
(* Bounds *)

MaxRows == 2

----------------------------------------------------------------------------
(* Scalars *)

NA == [t |-> "na", n |-> 0, d |-> 1, s |-> ""]
IntV(i) == [t |-> "int", n |-> i, d |-> 1, s |-> ""]
FloatV(i, k) == [t |-> "float", n |-> i, d |-> k, s |-> ""]
BoolV(b) == [t |-> "bool", n |-> IF b THEN 1 ELSE 0, d |-> 1, s |-> ""]
StrV(str) == [t |-> "str", n |-> 0, d |-> 1, s |-> str]
DtV(ns) == [t |-> "dt", n |-> ns, d |-> 1, s |-> ""]
TdV(ns) == [t |-> "td", n |-> ns, d |-> 1, s |-> ""]

isna(v) == v.t = "na"

\* Python's order on the strings the model uses (code-point order).
StrOrder == <<"7", "A", "B", "C", "D", "E", "F", "G", "H", "I", "J", "K",
              "Unknown", "nan">>

\* 10**9, the nanoseconds of a second (`ts // 10**9`).
NsPerSec == 1000000000

----------------------------------------------------------------------------
(* DataFrames *)

ColNames == <<"a", "b">>

\* A column name no DataFrame of the model has.
NoSuchCol == "zz"

Dtypes == {"int64", "float64", "bool", "datetime64", "timedelta64", "object"}

columns(frame) == {frame[i].name : i \in 1..Len(frame)}

\* df[col_name]
Col(frame, name) == frame[CHOOSE i \in 1..Len(frame) : frame[i].name = name]

\* len(df)
NRows(frame) == IF Len(frame) = 0 THEN 0 ELSE Len(frame[1].cells)

\* The cells a column of each dtype can hold: int64 and bool hold no missing
\* value, float64 holds NaN, datetime64 / timedelta64 hold NaT, object holds
\* the strings of `texts` and NaN.
CellsOf(dtype, texts) ==
    CASE dtype = "int64" -> {IntV(1), IntV(2)}
      [] dtype = "float64" -> {FloatV(3, 2), NA}
      [] dtype = "bool" -> {BoolV(TRUE), BoolV(FALSE)}
      [] dtype = "datetime64" -> {DtV(1500000000), NA}
      [] dtype = "timedelta64" -> {TdV(1500000000), NA}
      [] dtype = "object" -> {StrV(str) : str \in texts} \cup {NA}

ColumnsNamed(name, rows, texts) ==
    UNION {{[name |-> name, dtype |-> dt, cells |-> c] :
               c \in [1..rows -> CellsOf(dt, texts)]} : dt \in Dtypes}

\* Every DataFrame of 0..MaxRows rows over ColNames.
DataFrames(texts) ==
    UNION {{<<ca, cb>> : ca \in ColumnsNamed(ColNames[1], rows, texts),
                         cb \in ColumnsNamed(ColNames[2], rows, texts)} :
              rows \in 0..MaxRows}

\* pd.read_csv / pd.read_excel: what main() loads; "7" is a text that parses
\* as a number, "A" one that does not.  A table without rows comes with
\* object columns only (there are no values to infer a dtype from).
open_file_to_df ==
    {frame \in DataFrames({"A", "7"}) :
        NRows(frame) = 0 => \A i \in 1..Len(frame) : frame[i].dtype = "object"}

\* DataFrames with more categories than the palette has colours: a text
\* column that walks through twelve labels (eleven strings and NaN) from any
\* start with a stride coprime to twelve, beside an int64 column.
WideLabels == <<StrV("A"), StrV("B"), StrV("C"), StrV("D"), StrV("E"), StrV("F"),
                StrV("G"), StrV("H"), StrV("I"), StrV("J"), StrV("K"), NA>>

WideFrames ==
    {<<[name |-> ColNames[1], dtype |-> "object",
        cells |-> [i \in 1..rows |->
                     WideLabels[((start + (i - 1) * stride) % Len(WideLabels)) + 1]]],
       [name |-> ColNames[2], dtype |-> "int64",
        cells |-> [i \in 1..rows |-> IntV(1 + (i % 2))]]>> :
        start \in 0..(Len(WideLabels) - 1), stride \in {1, 5, 7, 11},
        rows \in {Len(WideLabels) - 1, Len(WideLabels)}}

----------------------------------------------------------------------------
(* pandas helpers *)

is_numeric_dtype(dtype) == dtype \in {"int64", "float64", "bool"}
is_bool_dtype(dtype) == dtype = "bool"
is_datetime64_any_dtype(dtype) == dtype = "datetime64"
is_timedelta64_dtype(dtype) == dtype = "timedelta64"

\* Mutant of fillna: the fill is left out.
fillna_skipped(cells, value) == cells

\* Series.fillna(value)
fillna(cells, value) ==
    [i \in 1..Len(cells) |-> IF isna(cells[i]) THEN value ELSE cells[i]]

\* Series.astype(str) on an object column: str() of every element, and
\* str(nan) is "nan": no element is missing afterwards.
astype_str(cells) ==
    [i \in 1..Len(cells) |-> IF isna(cells[i]) THEN StrV("nan") ELSE cells[i]]

\* Series.astype(float)
astype_float(cells) ==
    [i \in 1..Len(cells) |->
        IF cells[i].t \in {"int", "bool"} THEN FloatV(cells[i].n, 1) ELSE cells[i]]

\* pd.to_numeric(errors='coerce') of one element: a number where the text
\* parses, NaN otherwise.
ParseNum(v) == IF v.t = "str" /\ v.s = "7" THEN IntV(7) ELSE NA

\* pd.to_numeric(series, errors='coerce'): float64 as soon as one element is
\* NaN, int64 otherwise.
to_numeric(cells) ==
    LET parsed == [i \in 1..Len(cells) |-> ParseNum(cells[i])]
        anyNa == \E i \in 1..Len(parsed) : isna(parsed[i])
    IN  IF anyNa
          THEN [dtype |-> "float64", cells |-> astype_float(parsed)]
          ELSE [dtype |-> "int64", cells |-> parsed]

\* pd.Categorical(values).categories: the distinct non-missing values, sorted.
categories(cells) ==
    SelectSeq(StrOrder,
              LAMBDA str : \E i \in 1..Len(cells) :
                              cells[i].t = "str" /\ cells[i].s = str)

IndexOf(seq, e) == CHOOSE i \in 1..Len(seq) : seq[i] = e

\* pd.Categorical(values).codes: the 0-based position of each value in the
\* categories, -1 for a missing value.
codes(cells) ==
    LET cats == categories(cells)
    IN  [i \in 1..Len(cells) |->
            IF isna(cells[i]) THEN IntV(-1)
            ELSE IntV(IndexOf(cats, cells[i].s) - 1)]

----------------------------------------------------------------------------
(* change_ordinal_cols_by_terminal: the body of `for col in columns` for    *)
(* one column and one answer of the operator.                               *)

classify_col(c, choice) ==
    IF c.dtype = "object"
      THEN IF choice = "t"
             THEN [c EXCEPT !.cells = fillna(astype_str(c.cells), StrV("Unknown"))]
             ELSE LET num == to_numeric(c.cells)
                  IN  [c EXCEPT !.dtype = num.dtype,
                                !.cells = fillna(num.cells,
                                                 IF num.dtype = "float64"
                                                   THEN FloatV(0, 1) ELSE IntV(0))]
      ELSE IF is_numeric_dtype(c.dtype)
             THEN [c EXCEPT !.cells = fillna(c.cells, FloatV(0, 1))]
             ELSE c

----------------------------------------------------------------------------
(* change_data_types_to_numeric *)

Raised(err) == [ok |-> FALSE, err |-> err, dtype |-> "", cells |-> <<>>]
Returned(dtype, cells) == [ok |-> TRUE, err |-> "", dtype |-> dtype, cells |-> cells]

\* col_data.dt.total_seconds(): nanoseconds / 10**9, NaT gives NaN.
total_seconds(cells) ==
    [i \in 1..Len(cells) |->
        IF isna(cells[i]) THEN NA ELSE FloatV(cells[i].n, NsPerSec)]

\* view('int64'), NaN where the timestamp is missing, then `// 10**9`.
timestamp_seconds(cells) ==
    [i \in 1..Len(cells) |->
        IF isna(cells[i]) THEN NA ELSE FloatV(cells[i].n \div NsPerSec, 1)]

change_data_types_to_numeric(frame, col_name) ==
    IF col_name \notin columns(frame)
      THEN IF Len(frame) = 0
             THEN Raised("IndexError")
             ELSE Returned(frame[1].dtype, frame[1].cells)
      ELSE LET col_data == Col(frame, col_name)
           IN  IF is_timedelta64_dtype(col_data.dtype)
                 THEN Returned("float64", total_seconds(col_data.cells))
               ELSE IF is_datetime64_any_dtype(col_data.dtype)
                 THEN Returned("float64", timestamp_seconds(col_data.cells))
               ELSE IF col_data.dtype = "object"
                 THEN Returned("float64",
                               astype_float(codes(fillna(col_data.cells,
                                                         StrV("Unknown")))))
               ELSE Returned("float64",
                             fillna(astype_float(col_data.cells), FloatV(0, 1)))

----------------------------------------------------------------------------
(* build_3d_figure *)

\* px.colors.qualitative.Plotly (the literal in the source is the same list).
palette == <<"#636EFA", "#EF553B", "#00CC96", "#AB63FA", "#FFA15A",
             "#19D3F3", "#FF6692", "#B6E880", "#FF97FF", "#FECB52">>

NoFigure == [ok |-> FALSE, err |-> "none", traces |-> <<>>, legend_title |-> "",
             title |-> "", axis_titles |-> <<>>]

FigureRaised(err) == [NoFigure EXCEPT !.err = err]

\* np.arange(len(df))
arange(rows) == [i \in 1..rows |-> i - 1]

\* numpy's cast of one element to the common dtype np.column_stack settles on:
\* int64 with int64 or bool gives int64, with float64 float64, with
\* timedelta64 timedelta64, with text text; a missing value stays missing.
Cast(v, kind) ==
    IF isna(v) THEN v
    ELSE CASE kind = "int" -> IntV(v.n)
           [] kind = "float" -> IF v.t = "float" THEN v ELSE FloatV(v.n, 1)
           [] kind = "td" -> TdV(v.n)
           [] kind = "str" -> IF v.t = "str" THEN v ELSE StrV(ToString(v.n))

\* The common dtype of an int64 array and an array of `dtype`; int64 and
\* datetime64 have none (numpy raises on the promotion).
CommonKind(dtype) ==
    CASE dtype \in {"int64", "bool"} -> "int"
      [] dtype = "float64" -> "float"
      [] dtype = "timedelta64" -> "td"
      [] dtype = "object" -> "str"
      [] dtype = "datetime64" -> "none"

\* np.column_stack((row_idx, values)): one row <<row index, value>> per point.
column_stack(row_idx, values, kind) ==
    [i \in 1..Len(row_idx) |-> <<Cast(IntV(row_idx[i]), kind), Cast(values[i], kind)>>]

\* The 1-based positions where cats == cat, in row order (the boolean mask).
MaskOf(cats, cat) ==
    SelectSeq([i \in 1..Len(cats) |-> i], LAMBDA i : cats[i] = StrV(cat))

\* series[mask]
Pick(cells, mask) == [k \in 1..Len(mask) |-> cells[mask[k]]]

\* Mutant of discrete_values: the colour column is categorised without
\* fillna("Unknown").
discrete_values_unfilled(color_cells) == color_cells

\* pd.Categorical(color_data.fillna("Unknown")): the values it categorises.
discrete_values(color_cells) == fillna(color_cells, StrV("Unknown"))

\* list(cats.categories)
unique_cats_of(color_cells) == categories(discrete_values(color_cells))

\* Mutant of color_map: the categories are counted from 1.
color_map_from_one(unique_cats, cat) ==
    palette[(IndexOf(unique_cats, cat) % Len(palette)) + 1]

\* color_map[cat] = palette[i % len(palette)] for i, cat in enumerate(unique_cats)
color_map(unique_cats, cat) ==
    palette[((IndexOf(unique_cats, cat) - 1) % Len(palette)) + 1]

is_numeric_color(dtype) ==
    \/ is_numeric_dtype(dtype)
    \/ is_bool_dtype(dtype)
    \/ is_datetime64_any_dtype(dtype)
    \/ is_timedelta64_dtype(dtype)

hovertemplate(x_col, y_col, z_col, color_col) == <<x_col, y_col, z_col, color_col>>

continuous_trace(x_data, y_data, z_data, color_data, rows, hover, color_col) ==
    [x |-> x_data.cells, y |-> y_data.cells, z |-> z_data.cells,
     name |-> "Data Points",
     marker_color |-> "", marker_colors |-> color_data.cells,
     colorscale |-> "Viridis", colorbar_title |-> color_col,
     customdata |-> column_stack(arange(rows), color_data.cells,
                                 CommonKind(color_data.dtype)),
     hovertemplate |-> hover, showlegend |-> FALSE]

\* Mutant of discrete_trace: the hover data carries the category's integer
\* code instead of the category.
discrete_trace_codes(x_data, y_data, z_data, cats, unique_cats, cat, rows, hover) ==
    LET mask == MaskOf(cats, cat)
    IN  [x |-> Pick(x_data.cells, mask), y |-> Pick(y_data.cells, mask),
         z |-> Pick(z_data.cells, mask),
         name |-> cat,
         marker_color |-> color_map(unique_cats, cat), marker_colors |-> <<>>,
         colorscale |-> "", colorbar_title |-> "",
         customdata |-> column_stack(Pick(arange(rows), mask),
                                     [k \in 1..Len(mask) |->
                                        IntV(IndexOf(unique_cats, cat) - 1)], "int"),
         hovertemplate |-> hover, showlegend |-> TRUE]

discrete_trace(x_data, y_data, z_data, cats, unique_cats, cat, rows, hover) ==
    LET mask == MaskOf(cats, cat)
    IN  [x |-> Pick(x_data.cells, mask), y |-> Pick(y_data.cells, mask),
         z |-> Pick(z_data.cells, mask),
         name |-> cat,
         marker_color |-> color_map(unique_cats, cat), marker_colors |-> <<>>,
         colorscale |-> "", colorbar_title |-> "",
         customdata |-> column_stack(Pick(arange(rows), mask),
                                     [k \in 1..Len(mask) |-> StrV(cat)], "str"),
         hovertemplate |-> hover, showlegend |-> TRUE]

build_3d_figure(frame, x_col, y_col, z_col, color_col) ==
    IF ~({x_col, y_col, z_col, color_col} \subseteq columns(frame))
      THEN FigureRaised("KeyError")
      ELSE
        LET x_data == Col(frame, x_col)
            y_data == Col(frame, y_col)
            z_data == Col(frame, z_col)
            color_data == Col(frame, color_col)
            rows == NRows(frame)
            hover == hovertemplate(x_col, y_col, z_col, color_col)
            layout == [ok |-> TRUE, err |-> "", traces |-> <<>>, legend_title |-> "",
                       title |-> "3D Scatter Plot of Fault Groups - Interactive",
                       axis_titles |-> <<x_col, y_col, z_col>>]
        IN  IF is_numeric_color(color_data.dtype)
              THEN IF CommonKind(color_data.dtype) = "none"
                     THEN FigureRaised("TypeError")
                     ELSE [layout EXCEPT !.traces =
                             <<continuous_trace(x_data, y_data, z_data, color_data,
                                                rows, hover, color_col)>>]
              ELSE LET cats == discrete_values(color_data.cells)
                       unique_cats == unique_cats_of(color_data.cells)
                   IN  [layout EXCEPT
                          !.traces = [k \in 1..Len(unique_cats) |->
                                        discrete_trace(x_data, y_data, z_data, cats,
                                                       unique_cats, unique_cats[k],
                                                       rows, hover)],
                          !.legend_title = color_col]

----------------------------------------------------------------------------
(* main(): the program *)

NoSeries == Raised("none")
NoSel == [x |-> "", y |-> "", z |-> "", color |-> ""]

Init ==
    /\ df \in open_file_to_df
    /\ df_classified = <<>>
    /\ pc = "classify"
    /\ col_i = 1
    /\ sel = NoSel
    /\ figure = NoFigure
    /\ series = NoSeries

\* One pass of `for col in columns` of change_ordinal_cols_by_terminal, with
\* the operator's answer to the prompt (asked for object columns only; any
\* other answer than t or n prompts again).  The pass over the last column
\* returns df to main().
change_ordinal_cols_by_terminal ==
    /\ pc = "classify"
    /\ \E choice \in {"t", "n", "other"} :
          IF df[col_i].dtype = "object" /\ choice = "other"
            THEN UNCHANGED vars
            ELSE LET out == [df EXCEPT ![col_i] = classify_col(df[col_i], choice)]
                 IN  /\ df' = out
                     /\ IF col_i = Len(df)
                          THEN /\ pc' = "choose"
                               /\ df_classified' = out
                               /\ col_i' = col_i
                          ELSE /\ col_i' = col_i + 1
                               /\ UNCHANGED <<pc, df_classified>>
                     /\ UNCHANGED <<sel, figure, series>>

\* The four _ask_for prompts: each returns an existing column.
choose_columns_by_terminal ==
    /\ pc = "choose"
    /\ \E x_col \in columns(df), y_col \in columns(df),
          z_col \in columns(df), color_col \in columns(df) :
          sel' = [x |-> x_col, y |-> y_col, z |-> z_col, color |-> color_col]
    /\ pc' = "build"
    /\ UNCHANGED <<df, df_classified, col_i, figure, series>>

\* build_dash_app: the layout's Graph holds build_3d_figure of the start
\* values; an exception leaves main().
build_dash_app ==
    /\ pc = "build"
    /\ LET fig == build_3d_figure(df, sel.x, sel.y, sel.z, sel.color)
       IN  IF fig.ok
             THEN figure' = fig /\ pc' = "serve"
             ELSE figure' = figure /\ pc' = "crashed"
    /\ UNCHANGED <<df, df_classified, col_i, sel, series>>

\* The callback of the four dropdowns: one dropdown takes one of its options
\* (all_columns), and the callback gets the four current values.  A callback
\* that raises publishes nothing: the Graph keeps its figure.
update_figure ==
    /\ pc = "serve"
    /\ \E which \in {"x", "y", "z", "color"}, value \in columns(df) :
          LET now == [sel EXCEPT ![which] = value]
              fig == build_3d_figure(df, now.x, now.y, now.z, now.color)
          IN  /\ sel' = now
              /\ figure' = IF fig.ok THEN fig ELSE figure
    /\ UNCHANGED <<df, df_classified, pc, col_i, series>>

Next ==
    \/ change_ordinal_cols_by_terminal
    \/ choose_columns_by_terminal
    \/ build_dash_app
    \/ update_figure

Spec == Init /\ [][Next]_vars

----------------------------------------------------------------------------
(* The functions applied to every bounded DataFrame *)

InitFn ==
    /\ df \in DataFrames({"A", "B"}) \cup WideFrames
    /\ df_classified = <<>>
    /\ pc = "call"
    /\ col_i = 1
    /\ sel = NoSel
    /\ figure = NoFigure
    /\ series = NoSeries

ArgNames == columns(df) \cup {NoSuchCol}

call_change_data_types_to_numeric ==
    /\ pc = "call"
    /\ \E col_name \in ArgNames :
          /\ series' = change_data_types_to_numeric(df, col_name)
          /\ sel' = [NoSel EXCEPT !.x = col_name]
    /\ pc' = "normalized"
    /\ UNCHANGED <<df, df_classified, col_i, figure>>

call_build_3d_figure ==
    /\ pc = "call"
    /\ \E x_col \in ArgNames, y_col \in ArgNames,
          z_col \in ArgNames, color_col \in ArgNames :
          /\ figure' = build_3d_figure(df, x_col, y_col, z_col, color_col)
          /\ sel' = [x |-> x_col, y |-> y_col, z |-> z_col, color |-> color_col]
    /\ pc' = "built"
    /\ UNCHANGED <<df, df_classified, col_i, series>>

NextFn ==
    \/ call_change_data_types_to_numeric
    \/ call_build_3d_figure

SpecFn == InitFn /\ [][NextFn]_vars

----------------------------------------------------------------------------
(* Vocabulary of the properties *)

SelCols == {sel.x, sel.y, sel.z, sel.color}

\* The figure in hand was built from four existing columns.
Built == pc = "built" /\ SelCols \subseteq columns(df)

ColorData == Col(df, sel.color)

\* The category a cell of a text column belongs to: its text, "Unknown" for
\* a missing cell.
LabelOf(v) == IF isna(v) THEN "Unknown" ELSE v.s

Labels(cells) == {LabelOf(cells[i]) : i \in 1..Len(cells)}

StrRank(str) == IndexOf(StrOrder, str)

\* The number of categories that sort before `str`.
SortedRank(cells, str) ==
    Cardinality({c \in Labels(cells) : StrRank(c) < StrRank(str)})

\* The first row (1-based) whose category is `str`.
FirstRow(cells, str) ==
    CHOOSE i \in 1..Len(cells) :
        /\ LabelOf(cells[i]) = str
        /\ \A j \in 1..(i - 1) : LabelOf(cells[j]) # str

\* The number of categories first seen before `str` is.
FirstSeenRank(cells, str) ==
    Cardinality({c \in Labels(cells) : FirstRow(cells, c) < FirstRow(cells, str)})

\* The rows (1-based, in order) of category `str`.
RowsOf(cells, str) ==
    SelectSeq([i \in 1..Len(cells) |-> i], LAMBDA i : LabelOf(cells[i]) = str)

\* A coordinate that is a number and not missing (a datetime or a duration
\* is let pass here: text and missing values are what is looked for).
IsNumber(v) == v.t \in {"int", "float", "bool", "dt", "td"}

\* A float that is not missing.
IsFloat(v) == v.t = "float"

\* Two scalars are the same value: both missing, the same text, the same
\* instant or duration, or numbers (int, float, bool) of the same magnitude.
SameValue(a, b) ==
    \/ isna(a) /\ isna(b)
    \/ a.t = "str" /\ b.t = "str" /\ a.s = b.s
    \/ a.t \in {"dt", "td"} /\ a.t = b.t /\ a.n = b.n
    \/ /\ a.t \in {"int", "float", "bool"}
       /\ b.t \in {"int", "float", "bool"}
       /\ a.n * b.d = b.n * a.d

\* The row position a carried row index shows: customdata holds it as an
\* int, a float, a duration of as many units, or its decimal text.
ShownIndex(v, rows) ==
    IF v.t = "str"
      THEN IF \E i \in 0..rows : ToString(i) = v.s
             THEN CHOOSE i \in 0..rows : ToString(i) = v.s
             ELSE -1
      ELSE IF v.d = 1 THEN v.n ELSE -1

RECURSIVE SumLen(_)
SumLen(traces) ==
    IF traces = <<>> THEN 0 ELSE Len(Head(traces).x) + SumLen(Tail(traces))

\* The dataset row (1-based) point j of trace k stands for: row j in the
\* single continuous trace, the j-th row of the trace's category otherwise.
RowOfPoint(k, j) ==
    IF is_numeric_color(ColorData.dtype)
      THEN j
      ELSE RowsOf(ColorData.cells, figure.traces[k].name)[j]

Points == {<<k, j>> \in (1..Len(figure.traces)) \X (1..(NRows(df) + 1)) :
              j <= Len(figure.traces[k].customdata)}

----------------------------------------------------------------------------
(* C1 *)

\* C1 (Reactive Controller): while the app serves, the Dataset is the one the
\* classifier pass returned and the published Figure is build_3d_figure of
\* it and of the four current selector values.
C1_PublishedFigureIsCurrent ==
    pc = "serve" =>
        /\ df = df_classified
        /\ figure = build_3d_figure(df_classified, sel.x, sel.y, sel.z, sel.color)

----------------------------------------------------------------------------
(* C2 *)

Fallback(name) == IF name \in columns(df) THEN name ELSE df[1].name

\* C2 (unknown column): build_3d_figure called with a column name the Dataset
\* does not have returns, without raising, the Figure of the selection with
\* the absent name replaced by the Dataset's first column.
C2_UnknownColumnFallsBack ==
    (pc = "built" /\ NoSuchCol \in SelCols) =>
        /\ figure.ok
        /\ figure.traces =
             build_3d_figure(df, Fallback(sel.x), Fallback(sel.y),
                             Fallback(sel.z), Fallback(sel.color)).traces

----------------------------------------------------------------------------
(* C3 *)

\* C3 (coordinates): every x, y and z of every trace of the published Figure
\* is a number and none is missing.
C3_CoordinatesNumeric ==
    pc = "serve" =>
        \A k \in 1..Len(figure.traces) :
            \A j \in 1..Len(figure.traces[k].x) :
                /\ IsNumber(figure.traces[k].x[j])
                /\ IsNumber(figure.traces[k].y[j])
                /\ IsNumber(figure.traces[k].z[j])

----------------------------------------------------------------------------
(* C4 *)

Normalized == pc = "normalized"

\* C4 as stated (Column Normalizer): for every Dataset and every column name,
\* existing or not, the result is a numeric series of as many values as the
\* Dataset has rows, none of them missing.
C4_NoMissingForAnyColumn ==
    Normalized =>
        /\ series.ok
        /\ Len(series.cells) = NRows(df)
        /\ \A i \in 1..Len(series.cells) : IsFloat(series.cells[i])

\* C4 as amended: for an existing column the result is a float series of as
\* many values as the Dataset has rows; it has no missing value when the
\* column is numeric, boolean or text, a missing numeric cell giving 0; for a
\* datetime or duration column it is missing exactly where the cell is
\* missing.  For a name the Dataset does not have, the result is the
\* Dataset's first column as it is.
C4_NormalizerContract ==
    Normalized =>
        IF sel.x \notin columns(df)
          THEN series = Returned(df[1].dtype, df[1].cells)
          ELSE LET src == Col(df, sel.x)
               IN  /\ series.ok
                   /\ series.dtype = "float64"
                   /\ Len(series.cells) = NRows(df)
                   /\ \A i \in 1..Len(series.cells) :
                         /\ series.cells[i].t \in {"float", "na"}
                         /\ src.dtype \in {"int64", "float64", "bool", "object"}
                              => IsFloat(series.cells[i])
                         /\ (is_numeric_dtype(src.dtype) /\ isna(src.cells[i]))
                              => series.cells[i] = FloatV(0, 1)
                         /\ src.dtype \in {"datetime64", "timedelta64"}
                              => (isna(series.cells[i]) <=> isna(src.cells[i]))

\* A numeric column with a missing cell has been normalised to 0 there.
C4_Witness ==
    /\ Normalized
    /\ sel.x \in columns(df)
    /\ Col(df, sel.x).dtype = "float64"
    /\ \E i \in 1..NRows(df) :
          isna(Col(df, sel.x).cells[i]) /\ series.cells[i] = FloatV(0, 1)

----------------------------------------------------------------------------
(* C5 *)

\* C5 (keep as text): when the classifier has processed a text column and
\* left it text (the answer was t), every cell that was missing holds
\* "Unknown", no cell is missing, and the dtype is still object.
C5_KeepAsTextFillsUnknown ==
    [][(/\ pc = "classify"
        /\ df[col_i].dtype = "object"
        /\ (col_i' # col_i \/ pc' # pc)
        /\ df'[col_i].dtype = "object")
       => \A i \in 1..NRows(df) :
             /\ ~isna(df'[col_i].cells[i])
             /\ isna(df[col_i].cells[i]) => df'[col_i].cells[i] = StrV("Unknown")]_vars

----------------------------------------------------------------------------
(* C6 *)

Discrete == Built /\ ~is_numeric_color(ColorData.dtype)

\* C6 (discrete partition): with a text colour column the Figure has exactly
\* one trace per distinct category of that column (a missing cell counting
\* as "Unknown"), named by it; every Dataset row is a point of exactly one
\* trace, the one of its category, with the row's x, y and z; the trace sizes
\* sum to the row count; the legend title is the colour column's name.
C6_DiscretePartition ==
    Discrete =>
        LET cells == ColorData.cells
            traces == figure.traces
        IN  /\ figure.ok
            /\ {traces[k].name : k \in 1..Len(traces)} = Labels(cells)
            /\ Len(traces) = Cardinality(Labels(cells))
            /\ \A i \in 1..NRows(df) :
                  /\ Cardinality({p \in Points :
                        ShownIndex(figure.traces[p[1]].customdata[p[2]][1],
                                   NRows(df)) = i - 1}) = 1
                  /\ \E p \in Points :
                        LET tr == traces[p[1]]
                        IN  /\ ShownIndex(tr.customdata[p[2]][1], NRows(df)) = i - 1
                            /\ tr.name = LabelOf(cells[i])
                            /\ tr.x[p[2]] = Col(df, sel.x).cells[i]
                            /\ tr.y[p[2]] = Col(df, sel.y).cells[i]
                            /\ tr.z[p[2]] = Col(df, sel.z).cells[i]
            /\ \A k \in 1..Len(traces) :
                  /\ Len(traces[k].x) = Len(traces[k].customdata)
                  /\ Len(traces[k].y) = Len(traces[k].x)
                  /\ Len(traces[k].z) = Len(traces[k].x)
            /\ SumLen(traces) = NRows(df)
            /\ figure.legend_title = sel.color

\* A discrete Figure of several categories, one of them the missing cells'.
C6_Witness ==
    /\ Discrete
    /\ Len(figure.traces) >= 3
    /\ \E i \in 1..NRows(df) : isna(ColorData.cells[i])
    /\ \E k \in 1..Len(figure.traces) :
          figure.traces[k].name = "Unknown" /\ Len(figure.traces[k].x) >= 1

----------------------------------------------------------------------------
(* C7 *)

\* C7 as stated (hover round trip): for every point of every trace, in both
\* colour modes, the colour value carried for the hover text is the original
\* cell of the colour column at the point's row, and the row index carried is
\* the row's position.
C7_HoverCarriesOriginalCell ==
    (Built /\ figure.ok) =>
        \A p \in Points :
            LET cd == figure.traces[p[1]].customdata[p[2]]
                row == RowOfPoint(p[1], p[2])
            IN  /\ ShownIndex(cd[1], NRows(df)) = row - 1
                /\ SameValue(cd[2], ColorData.cells[row])

\* C7 as amended: the same, except that in discrete mode a point whose
\* colour cell is missing carries the category "Unknown".
C7_HoverCarriesOriginalOrUnknown ==
    (Built /\ figure.ok) =>
        \A p \in Points :
            LET cd == figure.traces[p[1]].customdata[p[2]]
                row == RowOfPoint(p[1], p[2])
                cell == ColorData.cells[row]
            IN  /\ ShownIndex(cd[1], NRows(df)) = row - 1
                /\ IF Discrete /\ isna(cell)
                     THEN cd[2] = StrV("Unknown")
                     ELSE SameValue(cd[2], cell)

\* A discrete Figure whose hover data carries a text cell as it is for one
\* point and "Unknown" for a point whose colour cell is missing.
C7_Witness ==
    /\ Discrete
    /\ figure.ok
    /\ \E p \in Points :
          /\ isna(ColorData.cells[RowOfPoint(p[1], p[2])])
          /\ figure.traces[p[1]].customdata[p[2]][2] = StrV("Unknown")
    /\ \E p \in Points :
          /\ ~isna(ColorData.cells[RowOfPoint(p[1], p[2])])
          /\ figure.traces[p[1]].customdata[p[2]][2] =
                ColorData.cells[RowOfPoint(p[1], p[2])]

----------------------------------------------------------------------------
(* C8 *)

ContinuousFigure ==
    /\ figure.ok
    /\ Len(figure.traces) = 1
    /\ Len(figure.traces[1].x) = NRows(df)
    /\ figure.traces[1].colorbar_title = sel.color
    /\ figure.traces[1].colorscale = "Viridis"

DiscreteFigure ==
    /\ figure.ok
    /\ figure.legend_title = sel.color
    /\ \A k \in 1..Len(figure.traces) :
          /\ figure.traces[k].colorbar_title = ""
          /\ figure.traces[k].marker_color # ""

\* C8 (colour mode): the Figure is the continuous one (one trace of all rows
\* with a colorbar titled by the colour column) exactly when the colour
\* column is numeric, boolean, datetime or duration, and the discrete one
\* for every text column, whatever the values and the x, y, z selections.
C8_ModeByKind ==
    Built =>
        /\ ContinuousFigure <=>
             ColorData.dtype \in {"int64", "float64", "bool", "datetime64",
                                  "timedelta64"}
        /\ ColorData.dtype = "object" => DiscreteFigure

----------------------------------------------------------------------------
(* C9 *)

\* C9 (empty Dataset): for a Dataset without rows and a selection of existing
\* columns, build_3d_figure returns a Figure, and each of its traces has no
\* point.
C9_EmptyDataset ==
    (Built /\ NRows(df) = 0) =>
        /\ figure.ok
        /\ \A k \in 1..Len(figure.traces) : Len(figure.traces[k].x) = 0

----------------------------------------------------------------------------
(* C10 *)

\* C10 as stated (palette): in discrete mode the k-th distinct category in
\* first-seen row order (k from 0) has palette colour k mod P; the category
\* of the first row has the first palette colour.
C10_PaletteByFirstSeen ==
    (Discrete /\ figure.ok) =>
        \A k \in 1..Len(figure.traces) :
            figure.traces[k].marker_color =
                palette[(FirstSeenRank(ColorData.cells, figure.traces[k].name)
                           % Len(palette)) + 1]

\* C10 as amended: the k-th distinct category in sorted (code-point) order
\* (k from 0) has palette colour k mod P, with P >= 10 distinct colours; the
\* traces come in that order, and two categories share a colour exactly when
\* their sorted ranks differ by a multiple of P.
C10_PaletteBySortedOrder ==
    (Discrete /\ figure.ok) =>
        LET traces == figure.traces
            rank(k) == SortedRank(ColorData.cells, traces[k].name)
        IN  /\ Len(palette) >= 10
            /\ Cardinality({palette[i] : i \in 1..Len(palette)}) = Len(palette)
            /\ \A k \in 1..Len(traces) :
                  /\ rank(k) = k - 1
                  /\ traces[k].marker_color = palette[(rank(k) % Len(palette)) + 1]
            /\ \A k1, k2 \in 1..Len(traces) :
                  (traces[k1].marker_color = traces[k2].marker_color)
                     <=> ((rank(k1) - rank(k2)) % Len(palette) = 0)

\* More categories than colours: the palette has wrapped around, and the
\* first row's category is not the one with the first colour.
C10_Witness ==
    /\ Discrete
    /\ figure.ok
    /\ Len(figure.traces) > Len(palette)
    /\ figure.traces[Len(palette) + 1].marker_color = palette[1]
    /\ \E k \in 1..Len(figure.traces) :
          /\ figure.traces[k].name = LabelOf(ColorData.cells[1])
          /\ figure.traces[k].marker_color # palette[1]

=============================================================================
